---- MODULE Spec2Model ----
(***************************************************************************)
(* Social Media Downloader API (src/api/main.py).                          *)
(*                                                                         *)
(* The service has one working endpoint, POST /api/download, wrapped by a  *)
(* per-remote-address rate limit of 60 requests per minute.  A request     *)
(* carries a URL and an optional format; the endpoint lower-cases and      *)
(* validates the format, classifies the URL by searching the platform      *)
(* patterns in the URL's netloc, and dispatches to the platform's          *)
(* placeholder handler.                                                    *)
(*                                                                         *)
(* Text the code inspects character by character (URLs, formats, the       *)
(* pattern literals) is a tuple of one-character strings, so that          *)
(* substring search, lower-casing and netloc extraction are computed as    *)
(* the code computes them.                                                 *)
(***************************************************************************)
EXTENDS Integers, Sequences, FiniteSets, TLC

VARIABLES
    now,      \* the clock the limiter's storage reads, in ticks
    storage,  \* limiter storage: key -> [count, expiry]
    resp,     \* per client: the last request it sent and the response it got
    adm       \* history: per client, requests admitted in each of the last Window ticks

vars == <<now, storage, resp, adm>>

----------------------------------------------------------------------------
(* Program constants and model bounds *)

\* "60/minute": the number of requests per window
Limit == 60

\* "60/minute": one minute, in clock ticks (a tick is half a minute)
Window == 2

\* requests a client may still send after its window's counter passed Limit
MaxExcess == 2

\* last clock tick
MaxTime == 3

\* requests sent in the specification that enumerates the inputs
MaxReq == 1

Clients == {"c1", "c2"}

----------------------------------------------------------------------------
(* Text helpers *)

\* Python's `sub in s`; also re.search of a literal
Contains(s, sub) ==
    \E i \in 1..(Len(s) - Len(sub) + 1) : SubSeq(s, i, i + Len(sub) - 1) = sub

EndsWith(s, suf) ==
    /\ Len(suf) <= Len(s)
    /\ SubSeq(s, Len(s) - Len(suf) + 1, Len(s)) = suf

UpperCase == <<"A", "B", "C", "D", "E", "F", "G", "H", "I", "J", "K", "L", "M", "N", "O", "P", "Q", "R", "S", "T", "U", "V", "W", "X", "Y", "Z">>
LowerCase == <<"a", "b", "c", "d", "e", "f", "g", "h", "i", "j", "k", "l", "m", "n", "o", "p", "q", "r", "s", "t", "u", "v", "w", "x", "y", "z">>

LowerChar(ch) ==
    IF \E i \in 1..Len(UpperCase) : UpperCase[i] = ch
    THEN LowerCase[CHOOSE i \in 1..Len(UpperCase) : UpperCase[i] = ch]
    ELSE ch

\* str.lower()
Lower(s) == [i \in 1..Len(s) |-> LowerChar(s[i])]

\* str.capitalize() on the content types the handlers compute
capitalize(w) ==
    CASE w = "reel"  -> "Reel"
      [] w = "post"  -> "Post"
      [] w = "story" -> "Story"
      [] w = "short" -> "Short"
      [] w = "video" -> "Video"
      [] OTHER       -> w

\* first index >= from of a character of chars in s, Len(s) + 1 when there is none
FindAny(s, chars, from) ==
    LET at == {i \in from..Len(s) : s[i] \in chars}
    IN  IF at = {} THEN Len(s) + 1 ELSE CHOOSE i \in at : \A j \in at : i <= j

\* urlparse(url).netloc: what follows "scheme://" up to the first of "/", "?", "#"
netloc(url) ==
    LET colon == FindAny(url, {":"}, 1)
    IN  IF /\ colon + 2 <= Len(url)
           /\ url[colon + 1] = "/"
           /\ url[colon + 2] = "/"
        THEN SubSeq(url, colon + 3, FindAny(url, {"/", "?", "#"}, colon + 3) - 1)
        ELSE << >>

----------------------------------------------------------------------------
(* The request model *)

\* str(download_req.url): the URL's parts written out as one string
UrlStr(u) ==
    <<"h", "t", "t", "p", "s", ":", "/", "/">>
    \o (IF u.userinfo = << >> THEN << >> ELSE u.userinfo \o <<"@">>)
    \o u.host
    \o u.path
    \o (IF u.query = << >> THEN << >> ELSE <<"?">> \o u.query)

MP4 == <<"m", "p", "4">>
MP3 == <<"m", "p", "3">>

\* DownloadRequest.format: an omitted format defaults to "mp4", an explicit
\* null stays None
DownloadRequest(f) ==
    IF f.kind = "absent" THEN [kind |-> "str", text |-> MP4] ELSE f

----------------------------------------------------------------------------
(* Platform detection *)

\* PLATFORM_PATTERNS, in the dict's insertion order; alts are the regular
\* expression's alternatives, each a literal
PLATFORM_PATTERNS ==
    << [platform |-> "instagram", alts |-> {<<"i", "n", "s", "t", "a", "g", "r", "a", "m", ".", "c", "o", "m">>, <<"i", "n", "s", "t", "a", "g", "r", ".", "a", "m">>}],
       [platform |-> "tiktok",    alts |-> {<<"t", "i", "k", "t", "o", "k", ".", "c", "o", "m">>, <<"v", "m", ".", "t", "i", "k", "t", "o", "k", ".", "c", "o", "m">>}],
       [platform |-> "facebook",  alts |-> {<<"f", "a", "c", "e", "b", "o", "o", "k", ".", "c", "o", "m">>, <<"f", "b", ".", "c", "o", "m">>, <<"f", "b", ".", "w", "a", "t", "c", "h">>}],
       [platform |-> "youtube",   alts |-> {<<"y", "o", "u", "t", "u", "b", "e", ".", "c", "o", "m">>, <<"y", "o", "u", "t", "u", ".", "b", "e">>}] >>

Platforms == {PLATFORM_PATTERNS[i].platform : i \in 1..Len(PLATFORM_PATTERNS)}

\* pattern.search(s): the pattern is unanchored
re_search(alts, s) == \E a \in alts : Contains(s, a)

\* detect_platform: the first pattern found in the netloc, "ValueError" when none is
detect_platform(url) ==
    LET domain == netloc(url)
        found  == {i \in 1..Len(PLATFORM_PATTERNS) :
                      re_search(PLATFORM_PATTERNS[i].alts, domain)}
    IN  IF found = {}
        THEN "ValueError"
        ELSE PLATFORM_PATTERNS[CHOOSE i \in found : \A j \in found : i <= j].platform

----------------------------------------------------------------------------
(* Platform handlers.  A response body is a record of the dict's values;   *)
(* keys names the dict's keys, and a key the dict lacks holds a blank.     *)

NoUrl == [base |-> "", stem |-> "", suffix |-> "", ext |-> << >>]

NoTitle == [prefix |-> "", word |-> ""]

NoBody ==
    [keys |-> {}, status |-> "", platform |-> "", media_type |-> "",
     download_url |-> NoUrl, thumbnail |-> "", title |-> NoTitle,
     duration |-> "", audio_url |-> "", available_formats |-> << >>]

CommonKeys ==
    {"status", "platform", "media_type", "download_url", "thumbnail", "title", "duration"}

instagram_handler(url, format) ==
    LET content_type ==
            IF Contains(url, <<"r", "e", "e", "l">>) THEN "reel"
            ELSE IF Contains(url, <<"p", "/">>) THEN "post"
            ELSE "story"
    IN  [NoBody EXCEPT
            !.keys = CommonKeys,
            !.status = "success",
            !.platform = "Instagram",
            !.media_type = IF content_type \in {"reel", "story"} THEN "video" ELSE "image",
            !.download_url = [base   |-> "https://api.example.com/downloads/instagram/",
                              stem   |-> content_type,
                              suffix |-> "_processed.",
                              ext    |-> format],
            !.thumbnail = "https://api.example.com/thumbnails/instagram_thumbnail.jpg",
            !.title = [prefix |-> "Instagram ", word |-> capitalize(content_type)],
            !.duration = IF content_type \in {"reel", "story"} THEN "15s" ELSE "None"]

tiktok_handler(url, format) ==
    [NoBody EXCEPT
        !.keys = CommonKeys \cup {"audio_url"},
        !.status = "success",
        !.platform = "TikTok",
        !.media_type = "video",
        !.download_url = [base   |-> "https://api.example.com/downloads/tiktok/",
                          stem   |-> "video",
                          suffix |-> "_nowatermark.",
                          ext    |-> format],
        !.thumbnail = "https://api.example.com/thumbnails/tiktok_thumbnail.jpg",
        !.title = [prefix |-> "TikTok ", word |-> "Video"],
        !.duration = "30s",
        !.audio_url = IF format = MP3
                      THEN "https://api.example.com/downloads/tiktok/audio.mp3"
                      ELSE "None"]

facebook_handler(url, format) ==
    LET content_type ==
            IF Contains(url, <<"r", "e", "e", "l">>) THEN "reel"
            ELSE IF Contains(url, <<"s", "t", "o", "r", "y">>) THEN "story"
            ELSE "post"
    IN  [NoBody EXCEPT
            !.keys = CommonKeys,
            !.status = "success",
            !.platform = "Facebook",
            !.media_type = IF content_type \in {"reel", "story"} THEN "video" ELSE "image",
            !.download_url = [base   |-> "https://api.example.com/downloads/facebook/",
                              stem   |-> content_type,
                              suffix |-> ".",
                              ext    |-> format],
            !.thumbnail = "https://api.example.com/thumbnails/facebook_thumbnail.jpg",
            !.title = [prefix |-> "Facebook ", word |-> capitalize(content_type)],
            !.duration = IF content_type \in {"reel", "story"} THEN "60s" ELSE "None"]

youtube_handler(url, format) ==
    LET content_type == IF Contains(url, <<"s", "h", "o", "r", "t", "s">>) THEN "short" ELSE "video"
    IN  [NoBody EXCEPT
            !.keys = CommonKeys \cup {"available_formats"},
            !.status = "success",
            !.platform = "YouTube",
            !.media_type = "video",
            !.download_url = [base   |-> "https://api.example.com/downloads/youtube/",
                              stem   |-> content_type,
                              suffix |-> ".",
                              ext    |-> format],
            !.thumbnail = "https://api.example.com/thumbnails/youtube_thumbnail.jpg",
            !.title = [prefix |-> "YouTube ", word |-> capitalize(content_type)],
            !.duration = IF content_type = "short" THEN "30s" ELSE "5m",
            !.available_formats = <<"144p", "240p", "360p", "480p", "720p", "1080p">>]

\* a mapping that sends a platform to another platform's handler
PLATFORM_HANDLERS_crossed ==
    [instagram |-> "instagram_handler", tiktok   |-> "youtube_handler",
     facebook  |-> "facebook_handler",  youtube  |-> "tiktok_handler"]

PLATFORM_HANDLERS ==
    [instagram |-> "instagram_handler", tiktok   |-> "tiktok_handler",
     facebook  |-> "facebook_handler",  youtube  |-> "youtube_handler"]

\* handler(url, format), for the handler the mapping gave
call_handler(h, url, format) ==
    CASE h = "instagram_handler" -> instagram_handler(url, format)
      [] h = "tiktok_handler"    -> tiktok_handler(url, format)
      [] h = "facebook_handler"  -> facebook_handler(url, format)
      [] h = "youtube_handler"   -> youtube_handler(url, format)

----------------------------------------------------------------------------
(* The endpoint.  An outcome is what a call ends in: a returned body or a  *)
(* raised exception; trace lists the stages the call went through and      *)
(* detected is what detect_platform gave ("" when it was not called).      *)

Return(body, trace, detected) ==
    [kind |-> "return", exc |-> "", status_code |-> 200, body |-> body,
     trace |-> trace, detected |-> detected]

Raise(exc, code, trace, detected) ==
    [kind |-> "raise", exc |-> exc, status_code |-> code, body |-> NoBody,
     trace |-> trace, detected |-> detected]

\* the body of download_media's try block
try_block(url, req) ==
    IF req.kind = "null"
    THEN \* None.lower()
         Raise("AttributeError", 0, <<"validate">>, "")
    ELSE
    LET format == Lower(req.text)
    IN  IF format \notin {MP4, MP3}
        THEN Raise("HTTPException", 400, <<"validate">>, "")
        ELSE
        LET platform == detect_platform(url)
        IN  IF platform = "ValueError"
            THEN \* except ValueError: raise HTTPException(400)
                 Raise("HTTPException", 400, <<"validate", "detect">>, platform)
            ELSE IF platform \notin DOMAIN PLATFORM_HANDLERS
            THEN Raise("HTTPException", 501, <<"validate", "detect">>, platform)
            ELSE Return(call_handler(PLATFORM_HANDLERS[platform], url, format),
                        <<"validate", "detect", "handler">>, platform)

\* download_media: `except Exception` catches whatever the try block raised,
\* HTTPException included, and raises HTTPException(500) in its place
download_media(url, req) ==
    LET r == try_block(url, req)
    IN  IF r.kind = "raise"
        THEN Raise("HTTPException", 500, r.trace, r.detected)
        ELSE r

----------------------------------------------------------------------------
(* The rate limit.  Limiter(key_func=get_remote_address) names neither a    *)
(* strategy nor a storage, so the limit is counted per fixed window in the *)
(* process's memory: a key's window opens at its first hit and expires     *)
(* Window ticks later, and every hit is counted, a rejected one included.  *)

\* a key that is the same for every client
key_func_shared(c) == "c1"

\* get_remote_address: the limiter's key is the client's address
key_func(c) == c

\* the storage's counter for a key: an expired window counts as none
get(k) == IF storage[k].expiry <= now THEN 0 ELSE storage[k].count

\* the storage's incr: the first hit of a window sets the window's expiry
incr(k) ==
    [count  |-> get(k) + 1,
     expiry |-> IF get(k) = 0 THEN now + Window ELSE storage[k].expiry]

\* the route registered without the limit: download_media is called directly
limited_unapplied(count, url, req) == download_media(url, req)

\* a limit that lets one request more through
limited_lenient(count, url, req) ==
    IF count <= Limit + 1
    THEN LET r == download_media(url, req)
         IN  [r EXCEPT !.trace = <<"limit">> \o @]
    ELSE Raise("RateLimitExceeded", 429, <<"limit">>, "")

\* @limiter.limit("60/minute") around download_media: the hit is counted
\* first; over the limit RateLimitExceeded is raised (answered 429 by the
\* registered handler) and download_media is not called
limited(count, url, req) ==
    IF count <= Limit
    THEN LET r == download_media(url, req)
         IN  [r EXCEPT !.trace = <<"limit">> \o @]
    ELSE Raise("RateLimitExceeded", 429, <<"limit">>, "")

----------------------------------------------------------------------------
(* Inputs *)

NoText == << >>

Url(userinfo, host, path, query) ==
    [userinfo |-> userinfo, host |-> host, path |-> path, query |-> query]

Hosts ==
    {<<"i", "n", "s", "t", "a", "g", "r", "a", "m", ".", "c", "o", "m">>, <<"w", "w", "w", ".", "i", "n", "s", "t", "a", "g", "r", "a", "m", ".", "c", "o", "m">>, <<"i", "n", "s", "t", "a", "g", "r", ".", "a", "m">>,
     <<"w", "w", "w", ".", "t", "i", "k", "t", "o", "k", ".", "c", "o", "m">>, <<"v", "m", ".", "t", "i", "k", "t", "o", "k", ".", "c", "o", "m">>,
     <<"f", "a", "c", "e", "b", "o", "o", "k", ".", "c", "o", "m">>, <<"f", "b", ".", "c", "o", "m">>, <<"f", "b", ".", "w", "a", "t", "c", "h">>,
     <<"y", "o", "u", "t", "u", "b", "e", ".", "c", "o", "m">>, <<"y", "o", "u", "t", "u", ".", "b", "e">>,
     <<"e", "x", "a", "m", "p", "l", "e", ".", "c", "o", "m">>, <<"n", "o", "t", "i", "n", "s", "t", "a", "g", "r", "a", "m", ".", "c", "o", "m">>, <<"y", "o", "u", "t", "u", "b", "e", ".", "c", "o", "m", ".", "e", "v", "i", "l", ".", "o", "r", "g">>,
     <<"t", "i", "k", "t", "o", "k", ".", "c", "o", "m", ".", "y", "o", "u", "t", "u", "b", "e", ".", "c", "o", "m">>}

Paths ==
    {<<"/">>, <<"/", "r", "e", "e", "l", "/", "1">>, <<"/", "p", "/", "1">>, <<"/", "s", "t", "o", "r", "y", "/", "1">>, <<"/", "s", "h", "o", "r", "t", "s", "/", "1">>,
     <<"/", "@", "u", "s", "e", "r", "/", "v", "i", "d", "e", "o", "/", "1", "2", "3">>, <<"/", "v", "i", "d", "e", "o">>}

Urls ==
    {Url(NoText, h, p, NoText) : h \in Hosts, p \in Paths}
    \cup {Url(<<"i", "n", "s", "t", "a", "g", "r", "a", "m", ".", "c", "o", "m">>, h, <<"/", "w", "a", "t", "c", "h">>, NoText) :
             h \in {<<"y", "o", "u", "t", "u", "b", "e", ".", "c", "o", "m">>, <<"e", "x", "a", "m", "p", "l", "e", ".", "c", "o", "m">>}}
    \cup {Url(NoText, h, <<"/", "v", "i", "d", "e", "o">>, <<"r", "e", "f", "=", "r", "e", "e", "l">>) :
             h \in {<<"f", "a", "c", "e", "b", "o", "o", "k", ".", "c", "o", "m">>, <<"e", "x", "a", "m", "p", "l", "e", ".", "c", "o", "m">>}}

Str(t) == [kind |-> "str", text |-> t]

Formats ==
    {[kind |-> "absent", text |-> NoText], [kind |-> "null", text |-> NoText],
     Str(MP4), Str(MP3), Str(<<"M", "P", "4">>), Str(<<"M", "p", "3">>), Str(<<"a", "v", "i">>)}

TikTokVideo == Url(NoText, <<"w", "w", "w", ".", "t", "i", "k", "t", "o", "k", ".", "c", "o", "m">>, <<"/", "@", "u", "s", "e", "r", "/", "v", "i", "d", "e", "o", "/", "1", "2", "3">>, NoText)

FewUrls == {TikTokVideo, Url(NoText, <<"e", "x", "a", "m", "p", "l", "e", ".", "c", "o", "m">>, <<"/", "v", "i", "d", "e", "o">>, NoText)}

FewFormats == {Str(MP4), Str(<<"a", "v", "i">>)}

----------------------------------------------------------------------------
(* State machine *)

NoResp ==
    [sent |-> FALSE, url |-> Url(NoText, NoText, NoText, NoText),
     fmt |-> [kind |-> "absent", text |-> NoText],
     status |-> 0, body |-> NoBody, trace |-> << >>, detected |-> ""]

Zeros == [i \in 1..Window |-> 0]

Init ==
    /\ now = 0
    /\ storage = [k \in Clients |-> [count |-> 0, expiry |-> 0]]
    /\ resp = [c \in Clients |-> NoResp]
    /\ adm = [c \in Clients |-> Zeros]

\* one request of client c to POST /api/download, start to finish
Request(c, u, f) ==
    LET k   == key_func(c)
        hit == incr(k)
        out == limited(hit.count, UrlStr(u), DownloadRequest(f))
    IN  /\ get(k) < Limit + MaxExcess
        /\ storage' = [storage EXCEPT ![k] = hit]
        /\ resp' = [resp EXCEPT ![c] =
                       [sent |-> TRUE, url |-> u, fmt |-> f,
                        status |-> out.status_code, body |-> out.body,
                        trace |-> out.trace, detected |-> out.detected]]
        /\ adm' = [adm EXCEPT ![c][Window] = @ + (IF out.status_code = 429 THEN 0 ELSE 1)]
        /\ UNCHANGED now

\* the clock advances by one tick
Tick ==
    /\ now < MaxTime
    /\ now' = now + 1
    /\ adm' = [c \in Clients |-> Tail(adm[c]) \o <<0>>]
    /\ UNCHANGED <<storage, resp>>

\* requests of all clients interleaved, within one minute
Next == \E c \in Clients, u \in FewUrls, f \in FewFormats : Request(c, u, f)

Spec == Init /\ [][Next]_vars

\* one client, every input
NextInputs ==
    \E u \in Urls, f \in Formats :
        /\ storage[key_func("c1")].count < MaxReq
        /\ Request("c1", u, f)

SpecInputs == Init /\ [][NextInputs]_vars

\* one client over several minutes
NextWindow ==
    \/ \E f \in FewFormats : Request("c1", TikTokVideo, f)
    \/ Tick

SpecWindow == Init /\ [][NextWindow]_vars

----------------------------------------------------------------------------
(* Vocabulary of the properties *)

Sent(c) == resp[c].sent

Rejected(c) == resp[c].sent /\ resp[c].status = 429

Admitted(c) == resp[c].sent /\ resp[c].status # 429

\* the format value is mp4 or mp3, compared case-insensitively (an omitted
\* format is the default, mp4)
FormatOk(f) ==
    \/ f.kind = "absent"
    \/ f.kind = "str" /\ Lower(f.text) \in {MP4, MP3}

\* the platforms whose host pattern is found in the host
HostMatches(host) ==
    {PLATFORM_PATTERNS[i].platform : i \in
        {j \in 1..Len(PLATFORM_PATTERNS) : re_search(PLATFORM_PATTERNS[j].alts, host)}}

SupportedDomains ==
    UNION {PLATFORM_PATTERNS[i].alts : i \in 1..Len(PLATFORM_PATTERNS)}

\* the host is a supported domain or a subdomain of one
HostRecognized(host) ==
    \E d \in SupportedDomains : host = d \/ EndsWith(host, <<".">> \o d)

ContentTokens == {<<"r", "e", "e", "l">>, <<"p", "/">>, <<"s", "t", "o", "r", "y">>, <<"s", "h", "o", "r", "t", "s">>}

DisplayName ==
    [instagram |-> "Instagram", tiktok |-> "TikTok",
     facebook  |-> "Facebook",  youtube |-> "YouTube"]

PrimaryKind ==
    [Instagram |-> "Post", Facebook |-> "Post", YouTube |-> "Video", TikTok |-> "Video"]

Stages == <<"limit", "validate", "detect", "handler">>

IsPrefix(s, t) == Len(s) <= Len(t) /\ SubSeq(t, 1, Len(s)) = s

RECURSIVE SumFrom(_, _)
SumFrom(s, i) == IF i > Len(s) THEN 0 ELSE s[i] + SumFrom(s, i + 1)

\* requests of c admitted since its live limiter window opened; adm[c][i]
\* is the count of tick now - Window + i, the window opened at expiry - Window
AdmittedInWindow(c) ==
    SumFrom(adm[c], IF storage[c].expiry - now >= 1 THEN storage[c].expiry - now ELSE 1)

WindowLive(c) == storage[c].expiry > now

----------------------------------------------------------------------------
(* Properties *)

\* C1: a request with a valid format whose host matches none of the platform
\* patterns makes detect_platform fail and is answered with status 400.
C1_UnsupportedHostIs400 ==
    \A c \in Clients :
        (/\ Admitted(c)
         /\ FormatOk(resp[c].fmt)
         /\ HostMatches(resp[c].url.host) = {})
        => /\ resp[c].detected = "ValueError"
           /\ resp[c].status = 400

\* C2: a request whose format is not mp4 or mp3 (case-insensitively, null
\* included) is answered with status 400 and reaches no platform handler.
C2_InvalidFormatIs400 ==
    \A c \in Clients :
        (Admitted(c) /\ ~FormatOk(resp[c].fmt))
        => /\ resp[c].status = 400
           /\ \A i \in 1..Len(resp[c].trace) : resp[c].trace[i] # "handler"

\* C3: whenever the URL's host matches a platform's host pattern,
\* detect_platform returns that platform, whatever the rest of the URL is.
C3_KnownHostClassified ==
    \A c \in Clients :
        (Admitted(c) /\ FormatOk(resp[c].fmt))
        => \A p \in HostMatches(resp[c].url.host) : resp[c].detected = p

\* C4: whenever the URL's host is neither a supported domain nor a subdomain
\* of one, detect_platform fails with ValueError.
C4_UnknownHostRejected ==
    \A c \in Clients :
        (/\ Admitted(c)
         /\ FormatOk(resp[c].fmt)
         /\ ~HostRecognized(resp[c].url.host))
        => resp[c].detected = "ValueError"

\* C5 as stated: in any one minute (Window consecutive ticks) at most Limit
\* requests of a client are admitted.
C5_AnyMinuteAtMostLimit ==
    \A c \in Clients : SumFrom(adm[c], 1) <= Limit

\* C5 as amended: within one limiter window (the minute that begins with the
\* client's first request after its previous window expired) at most Limit
\* requests are admitted, and every request beyond that in the window is
\* answered 429 without being processed.
C5_WindowAtMostLimit ==
    \A c \in Clients :
        WindowLive(c) =>
            /\ AdmittedInWindow(c) <= Limit
            /\ storage[c].count <= Limit => (Admitted(c) /\ AdmittedInWindow(c) = storage[c].count)
            /\ storage[c].count > Limit =>
                  /\ Rejected(c)
                  /\ resp[c].trace = <<"limit">>
                  /\ AdmittedInWindow(c) = Limit

\* C5 witness: a client that used up its window and was answered 429
C5_Witness ==
    /\ WindowLive("c1")
    /\ Rejected("c1")
    /\ AdmittedInWindow("c1") = Limit
    /\ now > 0

\* C6: an admitted request with a supported host and a valid format succeeds;
\* the body has the six keys, names the platform detect_platform classified,
\* and its download_url ends with the lower-cased format; the TikTok video
\* URL with mp4 gives platform TikTok, media_type video.
C6_SupportedRequestSucceeds ==
    \A c \in Clients :
        (/\ Admitted(c)
         /\ FormatOk(resp[c].fmt)
         /\ HostRecognized(resp[c].url.host))
        => /\ resp[c].status = 200
           /\ resp[c].body.status = "success"
           /\ {"status", "platform", "media_type", "download_url", "thumbnail", "title"}
                 \subseteq resp[c].body.keys
           /\ resp[c].detected \in Platforms
           /\ resp[c].body.platform = DisplayName[resp[c].detected]
           /\ resp[c].body.download_url.ext = Lower(DownloadRequest(resp[c].fmt).text)
           /\ resp[c].body.download_url.ext \in {MP4, MP3}
           /\ (resp[c].url = TikTokVideo /\ resp[c].fmt = Str(MP4))
                 => /\ resp[c].body.platform = "TikTok"
                    /\ resp[c].body.media_type = "video"

\* C6 witness: the TikTok video URL asked for in upper case was served
C6_Witness ==
    /\ resp["c1"].url = TikTokVideo
    /\ resp["c1"].fmt = Str(<<"M", "P", "4">>)
    /\ resp["c1"].status = 200
    /\ resp["c1"].body.platform = "TikTok"

C10_SameRequestSameResponse ==
    /\ \A c, d \in Clients :
          (/\ Admitted(c) /\ Admitted(d)
           /\ resp[c].url = resp[d].url
           /\ resp[c].fmt = resp[d].fmt)
          => /\ resp[c].status = resp[d].status
             /\ resp[c].body = resp[d].body
    /\ \A c \in Clients : Rejected(c) <=> storage[c].count > Limit

\* C10, step part: a request of one client changes no other client's counter
\* or response, and a client's repeated request gets the response again.
C10_OtherClientsUntouched ==
    \A c \in Clients :
        /\ storage'[c] # storage[c]
           => \A d \in Clients \ {c} : storage'[d] = storage[d] /\ resp'[d] = resp[d]
        /\ (/\ Admitted(c)
            /\ resp'[c].sent /\ resp'[c].status # 429
            /\ resp'[c].url = resp[c].url
            /\ resp'[c].fmt = resp[c].fmt)
           => resp'[c] = resp[c]

\* C10: requests are isolated: an admitted request's response is a function
\* of its url and format, and one client's requests, failed or rejected ones
\* included, change neither the response nor the admission of another's.
C10_Isolation == []C10_SameRequestSameResponse /\ [][C10_OtherClientsUntouched]_vars

\* C10 witness: c1 is over its limit and was rejected, while c2, with its own
\* counter at the limit, was still admitted and served
C10_Witness ==
    /\ Rejected("c1")
    /\ storage["c2"].count = Limit
    /\ resp["c2"].status = 200

\* C8: for every URL host at most one platform's pattern matches.
C8_PatternsExclusive ==
    \A c \in Clients :
        Sent(c) => Cardinality(HostMatches(resp[c].url.host)) <= 1

\* C9: a supported-platform URL whose path holds none of the content tokens
\* is served, with the platform's primary content kind: post for Instagram
\* and Facebook, video for YouTube and TikTok.
C9_DefaultsToPrimaryKind ==
    \A c \in Clients :
        (/\ Admitted(c)
         /\ FormatOk(resp[c].fmt)
         /\ HostRecognized(resp[c].url.host)
         /\ \A t \in ContentTokens : ~Contains(resp[c].url.path, t))
        => /\ resp[c].status = 200
           /\ resp[c].body.title.word = PrimaryKind[resp[c].body.platform]

====
